---- MODULE Spec2Model ----
(***************************************************************************)
(* A model of projgen (src/main.rs): one synthesis run turns a Config into *)
(* a project directory through a fixed sequence of filesystem operations.  *)
(* Texts and paths are strings, built by concatenation as the source       *)
(* builds them; the filesystem is a set of directories and a map from file *)
(* paths to contents.  Every filesystem operation is one step, and each    *)
(* may fail for reasons outside the program (permissions, disk full).      *)
(***************************************************************************)
EXTENDS Naturals, Sequences, FiniteSets, TLC

VARIABLES
    cfg,      \* the Config of the current (or last) run
    pc,       \* position of the process inside main/create_project
    i,        \* loop index of `for dir in &dirs` in create_default_dirs
    dirs,     \* directories that exist
    files,    \* file path -> content
    err,      \* panic message of the run ("" while none)
    log,      \* filesystem operations attempted by the current run, in order
    fs0,      \* the filesystem as it was when the current run started
    runs      \* number of runs started so far

vars == <<cfg, pc, i, dirs, files, err, log, fs0, runs>>

\* ---------------------------------------------------------------- bounds

MaxRuns == 2

\* Inputs the command line can carry.
Names == {"demo", "main"}
ConfigTypes == {"exec", "lib", "dll"}
Generators == {"cmake", "premake"}

Configs ==
    [name : Names, config_type : ConfigTypes, use_clang_tidy : BOOLEAN,
     use_conan : BOOLEAN, generator : Generators]

\* ------------------------------------------------------- string helpers

StartsWith(s, p) == Len(p) <= Len(s) /\ SubSeq(s, 1, Len(p)) = p

Occurrences(s, sub) ==
    {k \in 1..Len(s) : k + Len(sub) - 1 <= Len(s) /\ SubSeq(s, k, k + Len(sub) - 1) = sub}

Contains(s, sub) == Occurrences(s, sub) # {}

LOWER == "abcdefghijklmnopqrstuvwxyz"
UPPER == "ABCDEFGHIJKLMNOPQRSTUVWXYZ"

UpperChar(c) ==
    IF \E k \in 1..Len(LOWER) : SubSeq(LOWER, k, k) = c
    THEN LET k == CHOOSE k \in 1..Len(LOWER) : SubSeq(LOWER, k, k) = c
         IN  SubSeq(UPPER, k, k)
    ELSE c

RECURSIVE to_uppercase(_)
to_uppercase(s) ==
    IF Len(s) = 0 THEN "" ELSE UpperChar(Head(s)) \o to_uppercase(Tail(s))

\* ------------------------------------------------------ static templates

MAIN_CPP ==
    "#include <iostream>\n\nint main() {\n    std::cout << \"Hello World!\";\n\n    return 0;\n}"

CLANG_TIDY ==
    "Checks: '*,-llvm*,-google*,-abseil*,-altera*,-android*,-boost*,-darwin*,-fuchsia*,-hicpp*,-linuxkernel*,-mpi*,-objc*,-openmp*,-zircon*,-modernize-use-trailing-return-type'\nWarningsAsErrors: 'bugprone-use-after-move'\n"

GITIGNORE ==
    "/.vs\n/Folder.DotSettings.user\n/build\n/proj_files\n/.vscode\n/.cache\n**/CMakeCache.txt"

\* ------------------------------------------------------------ CMakeGen

lint_hook ==
    "set(CMAKE_CXX_CLANG_TIDY \"clang-tidy;-format-style=file;--use-color;-header-filter=.*\")\n"

conan_include == "include(${CMAKE_BINARY_DIR}/conanbuildinfo.cmake)\n"

conan_link(c) == "target_link_libraries(" \o c.name \o " ${CONAN_LIBS})\n"

\* Faulty variant of target_statement: the two branches exchanged.
target_statement_swapped(c) ==
    IF c.config_type = "exec"
    THEN "add_library(" \o c.name \o " src/" \o c.name \o ".cpp)\n"
    ELSE IF c.config_type = "lib"
    THEN "add_executable(" \o c.name \o " src/main.cpp)\n"
    ELSE ""

\* if config_type == "exec" { add_executable } else if == "lib" { add_library }
target_statement(c) ==
    IF c.config_type = "exec"
    THEN "add_executable(" \o c.name \o " src/main.cpp)\n"
    ELSE IF c.config_type = "lib"
    THEN "add_library(" \o c.name \o " src/" \o c.name \o ".cpp)\n"
    ELSE ""

\* The text CMakeGen::generate_build_file assembles in cmake_file.
cmake_file(c) ==
    "cmake_minimum_required(VERSION 3.20)\n"
    \o "project(" \o c.name \o " VERSION 0.1.0)\n"
    \o (IF c.use_clang_tidy THEN lint_hook ELSE "")
    \o "set(" \o to_uppercase(c.name) \o "_SRC_DIR \"src\")\n"
    \o "set(" \o to_uppercase(c.name) \o "_INCLUDE_DIR \"include\")\n"
    \o "include_directories(" \o c.name \o " PUBLIC " \o to_uppercase(c.name) \o "_INCLUDE_DIR)\n"
    \o (IF c.use_conan THEN conan_include ELSE "")
    \o target_statement(c)
    \o (IF c.use_conan THEN conan_link(c) ELSE "")
    \o "set(ERROR_LIST \"-Werror=return-type -Werror=unused-result\")\n"
    \o "set(CMAKE_CXX_FLAGS \"${CMAKE_CXX_FLAGS} -std=c++20 -Wall -Wextra ${ERROR_LIST}\")\n"

setup_cmd == "cmake -G Ninja -S . -B build -DCMAKE_EXPORT_COMPILE_COMMANDS=1"

build_cmd == "cmake --build ./build"

\* The registry built in create_project: only "cmake" is registered.
supported_generators == {"cmake"}

\* ------------------------------------------------------------- paths

cmake_lists_path(c) == c.name \o "\\CMakeLists.txt"
conanfile_path(c) == c.name \o "\\conanfile.txt"
clang_tidy_path(c) == c.name \o "\\.clang-tidy"
gitignore_path(c) == c.name \o "\\.gitignore"
setup_bat_path(c) == c.name \o "\\setup.bat"
build_bat_path(c) == c.name \o "\\build.bat"

\* let dirs = vec![name, name + "\\src", name + "\\include", name + "\\build"]
default_dirs(c) ==
    <<c.name, c.name \o "\\src", c.name \o "\\include", c.name \o "\\build">>

\* Faulty variant of main_cpp_path: the entry point named after the project.
main_cpp_path_named(c) == default_dirs(c)[2] \o "\\" \o c.name \o ".cpp"

\* dirs[1].clone() + "\\main.cpp"
main_cpp_path(c) == default_dirs(c)[2] \o "\\main.cpp"

conan_file(c) == "[requires]\n\n[generators]\n" \o c.generator

conan_prefix == "cd build\nconan install .. --build missing\ncd ..\n"

\* create_cmd_shell_files: the install step is put in front of `setup`.
setup_text(c, setup) == IF c.use_conan THEN conan_prefix \o setup ELSE setup

\* ---------------------------------------------------------- filesystem

Entries == dirs \cup DOMAIN files

\* Index of the last path separator of p (0 when p is a single segment).
LastSep(p) ==
    LET S == {k \in 1..Len(p) : SubSeq(p, k, k) = "\\"}
    IN  IF S = {} THEN 0 ELSE CHOOSE k \in S : \A m \in S : m <= k

\* A single segment lives in the working directory, which exists.
ParentExists(p) == LastSep(p) = 0 \/ SubSeq(p, 1, LastSep(p) - 1) \in dirs

\* Faulty variant of create_dir_can: fs::create_dir_all, which accepts an
\* existing directory.
create_dir_all_can(p) == ParentExists(p) /\ p \notin DOMAIN files

\* fs::create_dir: the parent must exist and the path must not.
create_dir_can(p) == ParentExists(p) /\ p \notin Entries

\* fs::write: creates or truncates the file; the parent must exist.
write_can(p) == ParentExists(p) /\ p \notin dirs

\* Faulty variant of expect: the Result dropped, the run goes on.
expect_ignored(ok, next) == next

\* .expect(msg): an Err panics, an Ok goes on.
expect(ok, next) == IF ok THEN next ELSE "panicked"

Op(kind, p, ok, by) == [op |-> kind, path |-> p, ok |-> ok, by |-> by]

\* One fs::create_dir(p).expect(msg) by function `by`; io is FALSE when the
\* operating system refuses the call for a reason outside the program.
CreateDirStep(p, io, by, msg, next) ==
    LET ok == io /\ create_dir_can(p) IN
    /\ dirs' = IF ok THEN dirs \cup {p} ELSE dirs
    /\ files' = files
    /\ log' = Append(log, Op("create_dir", p, ok, by))
    /\ pc' = expect(ok, next)
    /\ err' = IF pc' = "panicked" THEN msg ELSE err

\* One fs::write(p, text).expect(msg) by function `by`.
WriteStep(p, text, io, by, msg, next) ==
    LET ok == io /\ write_can(p) IN
    /\ files' = IF ok
                THEN [q \in DOMAIN files \cup {p} |-> IF q = p THEN text ELSE files[q]]
                ELSE files
    /\ dirs' = dirs
    /\ log' = Append(log, Op("write", p, ok, by))
    /\ pc' = expect(ok, next)
    /\ err' = IF pc' = "panicked" THEN msg ELSE err

\* ------------------------------------------------------- control flow

\* Faulty variant of after_conan: .clang-tidy written unconditionally.
after_clang_tidy_always(c) == "clang_tidy"

\* if self.use_clang_tidy { write .clang-tidy }; then .gitignore
after_conan(c) == IF c.use_clang_tidy THEN "clang_tidy" ELSE "gitignore"

\* Faulty variant of after_shell_files: conanfile.txt written unconditionally.
after_shell_files_always(c) == "conanfile"

\* if self.use_conan { write conanfile.txt }
after_shell_files(c) == IF c.use_conan THEN "conanfile" ELSE after_conan(c)

\* --------------------------------------------------------------- actions

Init ==
    /\ cfg \in Configs
    /\ pc = "idle"
    /\ i = 1
    /\ dirs \in SUBSET Names
    /\ files = << >>
    /\ err = ""
    /\ log = << >>
    /\ fs0 = [dirs |-> dirs, files |-> files]
    /\ runs = 0

\* main: Config::from_args() yields any Config; create_project begins.
Main ==
    /\ pc \in {"idle", "done", "panicked"}
    /\ runs < MaxRuns
    /\ cfg' \in Configs
    /\ pc' = "create_dirs"
    /\ i' = 1
    /\ err' = ""
    /\ log' = << >>
    /\ fs0' = [dirs |-> dirs, files |-> files]
    /\ runs' = runs + 1
    /\ UNCHANGED <<dirs, files>>

\* create_default_dirs, one turn of `for dir in &dirs`.
CreateDir ==
    /\ pc = "create_dirs"
    /\ \E io \in BOOLEAN :
         CreateDirStep(default_dirs(cfg)[i], io, "Config::create_default_dirs",
                       "Failed to create \"" \o default_dirs(cfg)[i] \o "\" directory",
                       IF i < Len(default_dirs(cfg)) THEN "create_dirs" ELSE "main_cpp")
    /\ i' = IF pc' = "create_dirs" THEN i + 1 ELSE i
    /\ UNCHANGED <<cfg, fs0, runs>>

\* create_default_dirs, the write of main.cpp after the loop.
WriteMainCpp ==
    /\ pc = "main_cpp"
    /\ \E io \in BOOLEAN :
         WriteStep(main_cpp_path(cfg), MAIN_CPP, io, "Config::create_default_dirs",
                   "Failed to create main.cpp file", "lookup")
    /\ UNCHANGED <<cfg, i, fs0, runs>>

\* create_project: supported_generators.get(&self.generator)
LookupGenerator ==
    /\ pc = "lookup"
    /\ pc' = IF cfg.generator \in supported_generators
             THEN "generate_build_file" ELSE "panicked"
    /\ err' = IF cfg.generator \in supported_generators
              THEN err ELSE "Specified unsupported generator"
    /\ UNCHANGED <<cfg, i, dirs, files, log, fs0, runs>>

\* CMakeGen::generate_build_file: composes cmake_file and writes it itself.
GenerateBuildFile ==
    /\ pc = "generate_build_file"
    /\ \E io \in BOOLEAN :
         WriteStep(cmake_lists_path(cfg), cmake_file(cfg), io,
                   "CMakeGen::generate_build_file",
                   "Failed to create CMake file", "setup_bat")
    /\ UNCHANGED <<cfg, i, fs0, runs>>

\* create_cmd_shell_files: setup.bat
WriteSetupBat ==
    /\ pc = "setup_bat"
    /\ \E io \in BOOLEAN :
         WriteStep(setup_bat_path(cfg), setup_text(cfg, setup_cmd), io,
                   "Config::create_cmd_shell_files",
                   "Failed to create setup.bat file", "build_bat")
    /\ UNCHANGED <<cfg, i, fs0, runs>>

\* create_cmd_shell_files: build.bat
WriteBuildBat ==
    /\ pc = "build_bat"
    /\ \E io \in BOOLEAN :
         WriteStep(build_bat_path(cfg), build_cmd, io,
                   "Config::create_cmd_shell_files",
                   "Failed to create build.bat file", after_shell_files(cfg))
    /\ UNCHANGED <<cfg, i, fs0, runs>>

\* create_project: conanfile.txt
WriteConanfile ==
    /\ pc = "conanfile"
    /\ \E io \in BOOLEAN :
         WriteStep(conanfile_path(cfg), conan_file(cfg), io, "Config::create_project",
                   "Failed to create conanfile.txt file", after_conan(cfg))
    /\ UNCHANGED <<cfg, i, fs0, runs>>

\* create_project: .clang-tidy
WriteClangTidy ==
    /\ pc = "clang_tidy"
    /\ \E io \in BOOLEAN :
         WriteStep(clang_tidy_path(cfg), CLANG_TIDY, io, "Config::create_project",
                   "Failed to create .clang-tidy file", "gitignore")
    /\ UNCHANGED <<cfg, i, fs0, runs>>

\* create_project: .gitignore, then "Done."
WriteGitignore ==
    /\ pc = "gitignore"
    /\ \E io \in BOOLEAN :
         WriteStep(gitignore_path(cfg), GITIGNORE, io, "Config::create_project",
                   "Failed to create .gitignore file", "done")
    /\ UNCHANGED <<cfg, i, fs0, runs>>

Next ==
    \/ Main
    \/ CreateDir
    \/ WriteMainCpp
    \/ LookupGenerator
    \/ GenerateBuildFile
    \/ WriteSetupBat
    \/ WriteBuildBat
    \/ WriteConanfile
    \/ WriteClangTidy
    \/ WriteGitignore

Spec == Init /\ [][Next]_vars

\* ------------------------------------------------- vocabulary of the claims

Active == pc # "idle"

\* Paths the current run has created or written successfully.
Created == {log[k].path : k \in {m \in 1..Len(log) : log[m].ok}}

Written(p) == p \in Created

FsUnchanged == dirs = fs0.dirs /\ files = fs0.files

\* Everything at or below the project root n.
Under(n) == {p \in Entries : p = n \/ StartsWith(p, n \o "\\")}

Descriptor == files[cfg.name \o "\\CMakeLists.txt"]

DescriptorWritten == Written(cfg.name \o "\\CMakeLists.txt")

TargetDecls(d) == Occurrences(d, "add_executable(") \cup Occurrences(d, "add_library(")

RECURSIVE Backslashed(_)
Backslashed(s) ==
    IF Len(s) = 0 THEN ""
    ELSE (IF Head(s) = "/" THEN "\\" ELSE Head(s)) \o Backslashed(Tail(s))

\* The file a descriptor's relative source path names, seen from the
\* working directory: the project root, then the path with the program's
\* separator.
ProjectFile(n, rel) == n \o "\\" \o Backslashed(rel)

LibSource == "src/" \o cfg.name \o ".cpp"

ExpectedDirs ==
    {cfg.name, cfg.name \o "\\src", cfg.name \o "\\include", cfg.name \o "\\build"}

ExpectedFiles ==
    {cfg.name \o "\\src\\main.cpp", cfg.name \o "\\CMakeLists.txt",
     cfg.name \o "\\setup.bat", cfg.name \o "\\build.bat", cfg.name \o "\\.gitignore"}
    \cup (IF cfg.use_conan THEN {cfg.name \o "\\conanfile.txt"} ELSE {})
    \cup (IF cfg.use_clang_tidy THEN {cfg.name \o "\\.clang-tidy"} ELSE {})

\* ------------------------------------------------------------------ claims

\* C1: a run whose generator is not a registered key fails with the
\* unsupported-generator error and has performed no filesystem operation:
\* no directory and no file has been created.
C1_UnsupportedGeneratorWritesNothing ==
    (Active /\ cfg.generator \notin supported_generators) =>
        /\ Created = {}
        /\ FsUnchanged
        /\ (pc = "panicked" /\ \A k \in 1..Len(log) : log[k].ok) =>
             err = "Specified unsupported generator"

\* C2: a run whose config_type is neither "exec" nor "lib" is rejected
\* before synthesis: nothing is written, and the run never succeeds.
C2_InvalidKindRejected ==
    (Active /\ cfg.config_type \notin {"exec", "lib"}) =>
        /\ Created = {}
        /\ FsUnchanged
        /\ pc # "done"

\* C3: the descriptor the cmake generator writes holds exactly one target
\* declaration: for "exec" it is add_executable(<name> src/main.cpp) and no
\* add_library appears; for "lib" it is add_library(<name> src/<name>.cpp)
\* and no add_executable appears.
C3_ExactlyOneTarget ==
    DescriptorWritten =>
        /\ cfg.config_type = "exec" =>
             /\ Cardinality(TargetDecls(Descriptor)) = 1
             /\ Contains(Descriptor, "add_executable(" \o cfg.name \o " src/main.cpp)\n")
             /\ ~Contains(Descriptor, "add_library")
        /\ cfg.config_type = "lib" =>
             /\ Cardinality(TargetDecls(Descriptor)) = 1
             /\ Contains(Descriptor, "add_library(" \o cfg.name \o " " \o LibSource \o ")\n")
             /\ ~Contains(Descriptor, "add_executable")

C3_Witness ==
    /\ DescriptorWritten
    /\ cfg.config_type = "lib"
    /\ Contains(Descriptor, "add_library(")

\* C4: after a successful run, use_clang_tidy is true exactly when the
\* written descriptor holds the lint hook and <name>/.clang-tidy has been
\* written; when it is false neither is the case.
C4_ClangTidyIff ==
    pc = "done" =>
        /\ cfg.use_clang_tidy <=>
             (/\ Contains(Descriptor, "set(CMAKE_CXX_CLANG_TIDY ")
              /\ Written(cfg.name \o "\\.clang-tidy")
              /\ cfg.name \o "\\.clang-tidy" \in DOMAIN files)
        /\ ~cfg.use_clang_tidy =>
             /\ ~Contains(Descriptor, "CMAKE_CXX_CLANG_TIDY")
             /\ ~Written(cfg.name \o "\\.clang-tidy")
             /\ cfg.name \o "\\.clang-tidy" \notin DOMAIN files

C4_Witness ==
    /\ pc = "done"
    /\ cfg.use_clang_tidy
    /\ files[cfg.name \o "\\.clang-tidy"] = CLANG_TIDY

\* C5: use_conan is true exactly when conanfile.txt is written, the
\* descriptor holds the conan include and target_link_libraries, and the
\* command the generator's setup_cmd returns begins with the install step.
C5_ConanIff ==
    pc = "done" =>
        (cfg.use_conan <=>
            /\ Written(cfg.name \o "\\conanfile.txt")
            /\ Contains(Descriptor, "include(${CMAKE_BINARY_DIR}/conanbuildinfo.cmake)")
            /\ Contains(Descriptor, "target_link_libraries(")
            /\ StartsWith(setup_cmd, "cd build\nconan install .. --build missing\ncd ..\n"))

\* C6: a run started while the directory <name> exists fails at the
\* creation of the root directory and performs nothing else: the filesystem
\* is as it was before the run.
C6_ExistingDirectoryFails ==
    (Active /\ cfg.name \in fs0.dirs) =>
        /\ FsUnchanged
        /\ pc \in {"create_dirs", "panicked"}
        /\ pc = "create_dirs" => log = << >>
        /\ pc = "panicked" =>
             /\ log = <<Op("create_dir", cfg.name, FALSE, "Config::create_default_dirs")>>
             /\ err = "Failed to create \"" \o cfg.name \o "\" directory"

C6_Witness ==
    /\ pc = "panicked"
    /\ cfg.name \in fs0.dirs
    /\ cfg.name \o "\\.gitignore" \in DOMAIN fs0.files
    /\ Len(log) = 1

\* C7: when the filesystem operation of a step fails the run aborts there:
\* no later operation is performed, none is tried again, what the earlier
\* steps created stays in place, and the run does not end successfully.
C7_AbortAtFirstFailure ==
    /\ \A k \in 1..Len(log) :
         /\ ~log[k].ok => (k = Len(log) /\ pc = "panicked")
         /\ log[k].ok => log[k].path \in Entries
         /\ \A m \in 1..Len(log) : log[m].path = log[k].path => m = k
    /\ pc = "done" => \A k \in 1..Len(log) : log[k].ok

C7_Witness ==
    /\ pc = "panicked"
    /\ Len(log) >= 7
    /\ ~log[Len(log)].ok
    /\ cfg.name \o "\\CMakeLists.txt" \in DOMAIN files

\* C8: after a successful run the entries created are exactly the four
\* directories, the five fixed files, conanfile.txt when use_conan and
\* .clang-tidy when use_clang_tidy; include and build are empty and nothing
\* outside the project is touched.
C8_ExactLayout ==
    pc = "done" =>
        /\ cfg.generator = "cmake"
        /\ Created = ExpectedDirs \cup ExpectedFiles
        /\ Under(cfg.name) = ExpectedDirs \cup ExpectedFiles
        /\ Under(cfg.name) \cap dirs = ExpectedDirs
        /\ Under(cfg.name) \cap DOMAIN files = ExpectedFiles
        /\ \A p \in Entries \ Under(cfg.name) :
             /\ p \in dirs <=> p \in fs0.dirs
             /\ p \in DOMAIN files =>
                  (p \in DOMAIN fs0.files /\ files[p] = fs0.files[p])

C8_Witness ==
    /\ pc = "done"
    /\ cfg.use_conan
    /\ cfg.use_clang_tidy
    /\ Cardinality(Created) = 11

\* C9: the generator's build-descriptor operation touches no file: every
\* filesystem operation of a run is performed by the synthesizer (Config).
C9_GeneratorIsPure ==
    \A k \in 1..Len(log) : StartsWith(log[k].by, "Config::")

\* C10 as stated: for "lib" a successful run writes src/main.cpp and never
\* the file src/<name>.cpp that add_library names; for "exec" the file the
\* target names is created.
C10_LibSourceNeverCreated ==
    pc = "done" =>
        /\ cfg.config_type = "lib" =>
             /\ Contains(Descriptor, "add_library(" \o cfg.name \o " " \o LibSource \o ")")
             /\ Written(cfg.name \o "\\src\\main.cpp")
             /\ ~Written(ProjectFile(cfg.name, LibSource))
        /\ cfg.config_type = "exec" =>
             /\ Contains(Descriptor, "add_executable(" \o cfg.name \o " src/main.cpp)")
             /\ Written(ProjectFile(cfg.name, "src/main.cpp"))

\* C10 amended: as above for every name other than "main"; a library named
\* "main" has src/main.cpp as the source of its target, and that file is
\* created.
C10_LibSourceCreatedOnlyForMain ==
    pc = "done" =>
        /\ cfg.config_type = "lib" =>
             /\ Contains(Descriptor, "add_library(" \o cfg.name \o " " \o LibSource \o ")")
             /\ Written(cfg.name \o "\\src\\main.cpp")
             /\ Written(ProjectFile(cfg.name, LibSource)) <=> cfg.name = "main"
        /\ cfg.config_type = "exec" =>
             /\ Contains(Descriptor, "add_executable(" \o cfg.name \o " src/main.cpp)")
             /\ Written(ProjectFile(cfg.name, "src/main.cpp"))

C10_Witness ==
    /\ pc = "done"
    /\ cfg.config_type = "lib"
    /\ cfg.name # "main"
    /\ ProjectFile(cfg.name, LibSource) \notin Entries
====
